---- MODULE Spec2Model ----
\* A model of pybenchmarks.benchmark (src/pybenchmarks/__init__.py).
\*
\* One call of benchmark(stmts, *args, **keywords) is a sequential run: the
\* arguments are checked, the sweeps are normalised, the combinations are
\* enumerated and each one is calibrated, timed and stored in flat buffers,
\* which are finally reshaped and transposed.  The clock and the platform
\* (presence of /proc/<pid>/status) are the environment.
\*
\* Values of a sweep are identified with their 0-based position in the sweep.
\* Elapsed times are integers in milliseconds; a time per loop is the pair
\* <<best, number>> standing for best / number.
EXTENDS Integers, Sequences, FiniteSets, TLC

VARIABLES
    call,        \* the arguments of the call (never modified)
    env,         \* the platform: [proc, clock]
    pc,          \* position in benchmark()
    err,         \* the exception that ended the call, or "none"
    do_memory,   \* local do_memory
    iresult,     \* index of the current combination (enumerate), -1 before the loop
    i,           \* calibration loop variable
    number,      \* local number
    x,           \* local x: last calibration sample in ms, -1 while unbound
    r,           \* local r: the list of samples
    repeat_,     \* local repeat_ (-1 while unbound)
    best,        \* local best (-1 while unbound)
    memory,      \* local memory: "unbound", "snapshot" or "delta"
    todo,        \* iterations of Timer.repeat still to run
    tnumber,     \* the loop count of the timer execution in progress
    ret,         \* who called the timer: "calibration" or "repeat"
    result,      \* the result mapping: [keys, info, time, mem]
    written,     \* history: flat positions written, in order
    measured,    \* history: combination index -> what was measured for it
    calib,       \* history: calibration runs <<number, x>> of this combination
    rloops,      \* history: the loop count each sample of r was measured with
    setupRuns,   \* history: executions of the setup for this combination
    loopRuns,    \* history: completed timer executions for this combination
    memSamples,  \* history: calls of memory_usage in this call of benchmark
    printed      \* history: lines printed

vars == <<call, env, pc, err, do_memory, iresult, i, number, x, r, repeat_, best,
          memory, todo, tnumber, ret, result, written, measured, calib, rloops,
          setupRuns, loopRuns, memSamples, printed>>

----------------------------------------------------------------------------
\* Bounds of the model.

MaxArgs == 2
MaxKeys == 2
MaxLen == 3
MaxStmts == 2
MaxCells == 6
MaxRepeat == 3

\* Program constants.

\* range(10): at most ten calibration runs, 10**0 .. 10**9
CalibrationSteps == 10
\* x >= 0.1 : the calibration floor, in ms
FloorMs == 100
\* x > 1 : one second, in ms
OneSecondMs == 1000

----------------------------------------------------------------------------
\* Sequence helpers.

Reverse(s) == [k \in 1..Len(s) |-> s[Len(s) + 1 - k]]

RECURSIVE Prod(_)
\* np.product of a tuple of lengths (1 for the empty tuple)
Prod(s) == IF s = <<>> THEN 1 ELSE Head(s) * Prod(Tail(s))

RECURSIVE Compress(_, _)
\* the items of s whose flag in mask is set: (_ for _, l in zip(s, mask) if l)
Compress(s, mask) ==
    IF s = <<>> \/ mask = <<>> THEN <<>>
    ELSE (IF Head(mask) THEN <<Head(s)>> ELSE <<>>) \o Compress(Tail(s), Tail(mask))

RECURSIVE Min(_)
Min(s) == IF Len(s) = 1 THEN s[1]
          ELSE LET m == Min(Tail(s)) IN IF s[1] <= m THEN s[1] ELSE m

RECURSIVE Pow10(_)
Pow10(k) == IF k = 0 THEN 1 ELSE 10 * Pow10(k - 1)

RECURSIVE Product(_)
\* itertools.product(range(lens[1]), ..., range(lens[n])) as a sequence of
\* tuples: the rightmost position advances on every step.
Product(lens) ==
    IF lens = <<>> THEN << <<>> >>
    ELSE LET rest == Product(Tail(lens))
             m == Len(rest)
         IN [p \in 1..(Head(lens) * m) |->
                <<(p - 1) \div m>> \o rest[((p - 1) % m) + 1]]

SeqsUpTo(S, n) == UNION {[1..k -> S] : k \in 0..n}

----------------------------------------------------------------------------
\* The arguments of a call.
\*   stmts    : [single, items]; single is TRUE when stmts was not passed as
\*              a sequence; items are the kinds of the snippets: "callable",
\*              "text" or "other" (neither, such as 42)
\*   args     : the positional inputs, each [loop, n]: loop is TRUE for a
\*              list, tuple, generator or range of n values
\*   keywords : the keyword inputs in sorted key order, each [loop, n]
\*   setup    : "callable", "text" or "other"

Kinds == {"callable", "text", "other"}

Inputs == {[loop |-> FALSE, n |-> 1]} \cup {[loop |-> TRUE, n |-> k] : k \in 1..MaxLen}

\* The keys memory_usage() returns by default.
Metrics == {"VmRSS", "VmData", "VmSize"}

\* Elapsed times the clock can report for one timer execution, in ms.
Times == {50, 100, 1000, 2500}

\* Values of maxloop.
MaxloopValues == {0, 1, 5, 10, 1000000000, 1000000001}

----------------------------------------------------------------------------
\* benchmark(), lines 101-143: the locals that are functions of the arguments.

\* stmts after line 102
stmts == call.stmts.items

shape_stmts == IF call.stmts.single THEN <<>> ELSE <<Len(call.stmts.items)>>

\* line 101-108: stmts is not a callable, a string or a sequence of those
\* (len() of a non-sequence raises TypeError as well)
StmtsInvalid == \E k \in 1..Len(stmts) : stmts[k] = "other"

\* line 112
SetupInvalid == call.setup = "other"

\* line 115
TextWithArgs == stmts[1] = "text" /\ Len(call.args) > 0

\* a check that lets maxloop = 0 through
MaxloopNegative == call.maxloop < 0

\* line 119
MaxloopInvalid == call.maxloop < 1

isloopa == [k \in 1..Len(call.args) |-> call.args[k].loop]

\* the lengths of the normalised positional sequences (a fixed input is [a])
args == [k \in 1..Len(call.args) |-> IF isloopa[k] THEN call.args[k].n ELSE 1]

argsloop == Compress(args, isloopa)

isloopk == [k \in 1..Len(call.keywords) |-> call.keywords[k].loop]

keywords == [k \in 1..Len(call.keywords) |-> IF isloopk[k] THEN call.keywords[k].n ELSE 1]

keywordsloop == Compress(keywords, isloopk)

iterargs == Product(args)

\* _iterkeywords: the product of the reversed values, each tuple reversed back
iterkeywords(kw) ==
    LET itervalues == Product(Reverse(kw))
    IN [p \in 1..Len(itervalues) |-> Reverse(itervalues[p])]

iterkeys == iterkeywords(keywords)

\* itertools.product(iterargs, iterkeys, stmts)
iterinputs ==
    LET K == Len(iterkeys)
        S == Len(stmts)
    IN [p \in 1..(Len(iterargs) * K * S) |->
           [arg  |-> iterargs[((p - 1) \div (K * S)) + 1],
            kw   |-> iterkeys[(((p - 1) \div S) % K) + 1],
            stmt |-> (p - 1) % S]]

\* a shape that counts every positional input, swept or fixed
ShapeOfAllArgs == Reverse(args) \o Reverse(keywordsloop) \o shape_stmts

shape == Reverse(argsloop) \o Reverse(keywordsloop) \o shape_stmts

nbenches == Prod(shape)

\* _get_info: the label of a combination, made of the snippet (when stmts is
\* a sequence), the swept positional values and the swept k=v pairs
get_info(stmloop, argloop, keyloop) ==
    [stmt |-> stmloop, args |-> argloop, kw |-> keyloop]

\* lines 213-217: the label of combination c
InfoOf(c) ==
    LET stmloop == IF Len(shape_stmts) = 0 THEN -1 ELSE c.stmt
        argloop == Compress(c.arg, isloopa)
        keyloop == Compress([k \in 1..Len(c.kw) |-> <<k, c.kw[k]>>], isloopk)
    IN get_info(stmloop, argloop, keyloop)

\* np.zeros(nbenches, 'S256') and np.zeros(nbenches)
ZeroInfo == [stmt |-> -1, args |-> <<>>, kw |-> <<>>]
ZeroTime == <<0, 1>>

RECURSIVE Ravel(_, _)
\* the flat position (0-based, C order) of index idx in an array of shape shp
Ravel(idx, shp) ==
    IF idx = <<>> THEN 0
    ELSE Head(idx) * Prod(Tail(shp)) + Ravel(Tail(idx), Tail(shp))

\* the index tuples of an array of shape shp
Indices(shp) == {Product(shp)[p] : p \in 1..Prod(shp)}

\* buf.reshape(shp), the transposition forgotten
ReshapeOnly(buf, shp) ==
    [idx \in Indices(shp) |-> buf[Ravel(idx, shp) + 1]]

\* buf.reshape(shp).T : the cell at idx is the cell of the reshaped array at
\* the reversed index
ReshapeT(buf, shp) ==
    [idx \in Indices(Reverse(shp)) |-> buf[Ravel(Reverse(idx), shp) + 1]]

\* the clock: what one timer execution can report
Elapsed ==
    IF env.clock = "steady" THEN {FloorMs + iresult} ELSE Times

----------------------------------------------------------------------------
\* The calls explored.

\* Sweep declarations of every form, timed with a steady clock.
ShapeCalls ==
    {c \in [stmts    : {[single |-> TRUE, items |-> <<"callable">>]} \cup
                       {[single |-> FALSE, items |-> [k \in 1..n |-> "callable"]] :
                            n \in 1..MaxStmts},
            args     : SeqsUpTo(Inputs, MaxArgs),
            keywords : SeqsUpTo(Inputs, MaxKeys),
            repeat   : {1},
            setup    : {"text"},
            memory_usage : {FALSE},
            maxloop  : {1},
            verbose  : {1}] :
        LET lens(s) == [k \in 1..Len(s) |-> s[k].n]
        IN Prod(lens(c.args)) * Prod(lens(c.keywords)) * Len(c.stmts.items) <= MaxCells}

\* One combination under every maxloop, or two combinations under maxloop 1,
\* timed with a clock that can report any time.
TimerCalls ==
    [stmts    : {[single |-> TRUE, items |-> <<"callable">>]},
     args     : {<<>>},
     keywords : {<<>>},
     repeat   : 1..MaxRepeat,
     setup    : {"text"},
     memory_usage : {FALSE},
     maxloop  : MaxloopValues,
     verbose  : {0}]
    \cup
    [stmts    : {[single |-> FALSE, items |-> <<"callable", "text">>]},
     args     : {<<>>},
     keywords : {<<[loop |-> FALSE, n |-> 1]>>},
     repeat   : 1..MaxRepeat,
     setup    : {"callable"},
     memory_usage : {TRUE},
     maxloop  : {1},
     verbose  : {0, 1}]

\* Calls with every kind of snippet and setup, with and without positionals.
CheckedCalls ==
    [stmts    : {[single |-> TRUE, items |-> <<k>>] : k \in Kinds} \cup
                {[single |-> FALSE, items |-> it] : it \in [1..2 -> Kinds]},
     args     : {<<>>, <<[loop |-> FALSE, n |-> 1]>>, <<[loop |-> TRUE, n |-> 2]>>},
     keywords : {<<>>},
     repeat   : {1},
     setup    : Kinds,
     memory_usage : BOOLEAN,
     maxloop  : {0, 1},
     verbose  : {1}]

NoResult == [keys |-> {}, info |-> <<>>, time |-> <<>>, mem |-> <<>>]

Start(c, e) ==
    /\ call = c
    /\ env = e
    /\ pc = "call"
    /\ err = "none"
    /\ do_memory = FALSE
    /\ iresult = -1
    /\ i = 0
    /\ number = 0
    /\ x = -1
    /\ r = <<>>
    /\ repeat_ = -1
    /\ best = -1
    /\ memory = "unbound"
    /\ todo = 0
    /\ tnumber = 0
    /\ ret = "none"
    /\ result = NoResult
    /\ written = <<>>
    /\ measured = <<>>
    /\ calib = <<>>
    /\ rloops = <<>>
    /\ setupRuns = 0
    /\ loopRuns = 0
    /\ memSamples = 0
    /\ printed = 0

Init ==
    \/ \E c \in ShapeCalls :
          Start(c, [proc |-> "available", clock |-> "steady"])
    \/ \E c \in TimerCalls :
          Start(c, [proc |-> "available", clock |-> "noisy"])
    \/ \E c \in CheckedCalls, p \in {"available", "missing"} :
          Start(c, [proc |-> p, clock |-> "steady"])

----------------------------------------------------------------------------
\* The steps of benchmark().

Raise(e) == pc' = "raised" /\ err' = e

\* lines 101-121: the checks of the arguments
CheckArguments ==
    /\ pc = "call"
    /\ IF StmtsInvalid THEN Raise("TypeError") /\ UNCHANGED do_memory
       ELSE IF SetupInvalid THEN Raise("TypeError") /\ UNCHANGED do_memory
       ELSE IF TextWithArgs THEN Raise("ValueError") /\ UNCHANGED do_memory
       ELSE IF MaxloopInvalid THEN Raise("ValueError") /\ UNCHANGED do_memory
       ELSE pc' = "normalize" /\ do_memory' = call.memory_usage /\ UNCHANGED err
    /\ UNCHANGED <<call, env, iresult, i, number, x, r, repeat_, best, memory, todo,
                   tnumber, ret, result, written, measured, calib, rloops,
                   setupRuns, loopRuns, memSamples, printed>>

\* lines 123-153: the sweeps are normalised and the flat buffers allocated
Normalize ==
    /\ pc = "normalize"
    /\ result' = [keys |-> {"variables", "setup", "info", "time"},
                  info |-> [p \in 1..nbenches |-> ZeroInfo],
                  time |-> [p \in 1..nbenches |-> ZeroTime],
                  mem  |-> <<>>]
    /\ pc' = "memory"
    /\ UNCHANGED <<call, env, err, do_memory, iresult, i, number, x, r, repeat_, best,
                   memory, todo, tnumber, ret, written, measured, calib, rloops,
                   setupRuns, loopRuns, memSamples, printed>>

\* a first memory sample whose IOError is caught without disabling the sampling
FirstMemorySampleStillOn ==
    /\ pc = "memory"
    /\ IF ~do_memory
       THEN UNCHANGED <<memory, result, memSamples>>
       ELSE /\ memSamples' = memSamples + 1
            /\ IF env.proc = "missing"
               THEN UNCHANGED <<memory, result>>
               ELSE /\ memory' = "snapshot"
                    /\ result' = [result EXCEPT !.keys = @ \cup Metrics,
                                                !.mem = [p \in 1..nbenches |-> 0]]
    /\ pc' = "loop"
    /\ UNCHANGED <<call, env, err, do_memory, iresult, i, number, x, r, repeat_, best,
                   todo, tnumber, ret, written, measured, calib, rloops, setupRuns,
                   loopRuns, printed>>

\* lines 155-161: the first memory sample; an IOError disables the sampling
FirstMemorySample ==
    /\ pc = "memory"
    /\ IF ~do_memory
       THEN UNCHANGED <<do_memory, memory, result, memSamples>>
       ELSE /\ memSamples' = memSamples + 1
            /\ IF env.proc = "missing"
               THEN do_memory' = FALSE /\ UNCHANGED <<memory, result>>
               ELSE /\ memory' = "snapshot"
                    /\ result' = [result EXCEPT !.keys = @ \cup Metrics,
                                                !.mem = [p \in 1..nbenches |-> 0]]
                    /\ UNCHANGED do_memory
    /\ pc' = "loop"
    /\ UNCHANGED <<call, env, err, iresult, i, number, x, r, repeat_, best, todo,
                   tnumber, ret, written, measured, calib, rloops, setupRuns,
                   loopRuns, printed>>

\* lines 175-186: the next combination is taken and its Timer built
NextCombination ==
    /\ pc = "loop"
    /\ IF iresult + 1 < Len(iterinputs)
       THEN /\ iresult' = iresult + 1
            /\ i' = 0
            /\ pc' = "calibrate"
            /\ calib' = <<>>
            /\ rloops' = <<>>
            /\ setupRuns' = 0
            /\ loopRuns' = 0
       ELSE /\ pc' = "reshape"
            /\ UNCHANGED <<iresult, i, calib, rloops, setupRuns, loopRuns>>
    /\ UNCHANGED <<call, env, err, do_memory, number, x, r, repeat_, best, memory,
                   todo, tnumber, ret, result, written, measured, memSamples, printed>>

\* lines 189-193: for i in range(10): number = 10**i; break above maxloop,
\* else x = t.timeit(number)
Calibrate ==
    /\ pc = "calibrate"
    /\ IF i < CalibrationSteps
       THEN /\ number' = Pow10(i)
            /\ IF Pow10(i) > call.maxloop
               THEN pc' = "actual" /\ UNCHANGED <<tnumber, ret>>
               ELSE pc' = "timeit" /\ tnumber' = Pow10(i) /\ ret' = "calibration"
       ELSE pc' = "actual" /\ UNCHANGED <<number, tnumber, ret>>
    /\ UNCHANGED <<call, env, err, do_memory, iresult, i, x, r, repeat_, best, memory,
                   todo, result, written, measured, calib, rloops, setupRuns,
                   loopRuns, memSamples, printed>>

\* a timer that runs its setup on its first execution only
TimerSetupFirstOnly ==
    /\ pc = "timeit"
    /\ setupRuns' = IF setupRuns = 0 THEN 1 ELSE setupRuns
    /\ pc' = "inner"
    /\ UNCHANGED <<call, env, err, do_memory, iresult, i, number, x, r, repeat_, best,
                   memory, todo, tnumber, ret, result, written, measured, calib,
                   rloops, loopRuns, memSamples, printed>>

\* Timer.timeit, first half: the setup is executed
TimerSetup ==
    /\ pc = "timeit"
    /\ setupRuns' = setupRuns + 1
    /\ pc' = "inner"
    /\ UNCHANGED <<call, env, err, do_memory, iresult, i, number, x, r, repeat_, best,
                   memory, todo, tnumber, ret, result, written, measured, calib,
                   rloops, loopRuns, memSamples, printed>>

\* Timer.timeit, second half: the snippet is executed tnumber times and the
\* elapsed time returned to the caller (line 193, or Timer.repeat's list)
TimerLoop ==
    /\ pc = "inner"
    /\ loopRuns' = loopRuns + 1
    /\ \E t \in Elapsed :
          IF ret = "calibration"
          THEN /\ x' = t
               /\ calib' = Append(calib, <<tnumber, t>>)
               /\ pc' = "calibrated"
               /\ UNCHANGED <<r, rloops>>
          ELSE /\ r' = Append(r, t)
               /\ rloops' = Append(rloops, tnumber)
               /\ pc' = "repeat"
               /\ UNCHANGED <<x, calib>>
    /\ UNCHANGED <<call, env, err, do_memory, iresult, i, number, repeat_, best,
                   memory, todo, tnumber, ret, result, written, measured,
                   setupRuns, memSamples, printed>>

\* a floor test that lets x = 0.1 s go on: if x > 0.1
CalibratedStrict ==
    /\ pc = "calibrated"
    /\ IF x > FloorMs
       THEN pc' = "actual" /\ UNCHANGED i
       ELSE pc' = "calibrate" /\ i' = i + 1
    /\ UNCHANGED <<call, env, err, do_memory, iresult, number, x, r, repeat_, best,
                   memory, todo, tnumber, ret, result, written, measured, calib,
                   rloops, setupRuns, loopRuns, memSamples, printed>>

\* lines 194-195: if x >= 0.1: break
Calibrated ==
    /\ pc = "calibrated"
    /\ IF x >= FloorMs
       THEN pc' = "actual" /\ UNCHANGED i
       ELSE pc' = "calibrate" /\ i' = i + 1
    /\ UNCHANGED <<call, env, err, do_memory, iresult, number, x, r, repeat_, best,
                   memory, todo, tnumber, ret, result, written, measured, calib,
                   rloops, setupRuns, loopRuns, memSamples, printed>>

\* the loop count the sample in x was measured with (0: not in this combination)
LoopsOfX == IF calib = <<>> THEN 0 ELSE calib[Len(calib)][1]

\* a repeat count that ignores how long the calibration run took
RepeatForNoReduction(xms) == call.repeat - 1

\* lines 202-205: repeat_ when number == 1; int(repeat // x) with x in seconds
RepeatFor(xms) ==
    IF xms > OneSecondMs THEN (call.repeat * 1000) \div xms ELSE call.repeat - 1

\* the cap of line 196 forgotten
UncappedNumber == number

\* line 196
ChosenNumber == IF number <= call.maxloop THEN number ELSE call.maxloop

\* lines 196-209, up to the call of Timer.repeat: number is capped, the
\* garbage collected, the memory sampled, and r starts as [x] or as []
Actual ==
    /\ pc = "actual"
    /\ number' = ChosenNumber
    /\ IF do_memory /\ env.proc = "missing"
       THEN /\ Raise("IOError")
            /\ memSamples' = memSamples + 1
            /\ UNCHANGED <<memory, repeat_, r, rloops, todo>>
       ELSE /\ IF do_memory
               THEN memSamples' = memSamples + 1 /\ memory' = "snapshot"
               ELSE UNCHANGED <<memSamples, memory>>
            /\ IF ChosenNumber = 1
               THEN IF x < 0
                    THEN Raise("NameError") /\ UNCHANGED <<repeat_, r, rloops, todo>>
                    ELSE /\ repeat_' = RepeatFor(x)
                         /\ r' = <<x>>
                         /\ rloops' = <<LoopsOfX>>
                         /\ todo' = IF RepeatFor(x) > 0 THEN RepeatFor(x) ELSE 0
                         /\ pc' = "repeat"
                         /\ UNCHANGED err
               ELSE /\ r' = <<>>
                    /\ rloops' = <<>>
                    /\ todo' = call.repeat
                    /\ pc' = "repeat"
                    /\ UNCHANGED <<repeat_, err>>
    /\ UNCHANGED <<call, env, do_memory, iresult, i, x, best, tnumber, ret, result,
                   written, measured, calib, setupRuns, loopRuns, printed>>

\* Timer.repeat (lines 207 and 209): one more timeit(number), or the list is
\* complete
Repeat ==
    /\ pc = "repeat"
    /\ IF todo > 0
       THEN /\ todo' = todo - 1
            /\ tnumber' = number
            /\ ret' = "repeat"
            /\ pc' = "timeit"
       ELSE pc' = "reduce" /\ UNCHANGED <<todo, tnumber, ret>>
    /\ UNCHANGED <<call, env, err, do_memory, iresult, i, number, x, r, repeat_, best,
                   memory, result, written, measured, calib, rloops, setupRuns,
                   loopRuns, memSamples, printed>>

\* lines 210-212: best = min(r), and the memory is sampled again
Reduce ==
    /\ pc = "reduce"
    /\ IF r = <<>>
       THEN Raise("ValueError") /\ UNCHANGED <<best, memory, memSamples, measured>>
       ELSE /\ best' = Min(r)
            /\ measured' = Append(measured,
                   [comb |-> iterinputs[iresult + 1], time |-> <<Min(r), number>>])
            /\ IF do_memory /\ env.proc = "missing"
               THEN /\ Raise("IOError")
                    /\ memSamples' = memSamples + 1
                    /\ UNCHANGED memory
               ELSE /\ IF do_memory
                       THEN memSamples' = memSamples + 1 /\ memory' = "delta"
                       ELSE UNCHANGED <<memSamples, memory>>
                    /\ pc' = "report"
                    /\ UNCHANGED err
    /\ UNCHANGED <<call, env, do_memory, iresult, i, number, x, r, repeat_, todo,
                   tnumber, ret, result, written, calib, rloops, setupRuns,
                   loopRuns, printed>>

\* lines 214-242: the label is built and, when verbose, the line is printed
Report ==
    /\ pc = "report"
    /\ printed' = IF call.verbose > 0 THEN printed + 1 ELSE printed
    /\ pc' = "store"
    /\ UNCHANGED <<call, env, err, do_memory, iresult, i, number, x, r, repeat_, best,
                   memory, todo, tnumber, ret, result, written, measured, calib,
                   rloops, setupRuns, loopRuns, memSamples>>

\* lines 244-248: the flat buffers are written at position iresult
Store ==
    /\ pc = "store"
    /\ IF iresult + 1 > Len(result.info)
       THEN Raise("IndexError") /\ UNCHANGED <<result, written>>
       ELSE /\ result' = [result EXCEPT
                   !.info[iresult + 1] = InfoOf(iterinputs[iresult + 1]),
                   !.time[iresult + 1] = <<best, number>>,
                   !.mem = IF do_memory THEN [@ EXCEPT ![iresult + 1] = 1] ELSE @]
            /\ written' = Append(written, iresult)
            /\ pc' = "loop"
            /\ UNCHANGED err
    /\ UNCHANGED <<call, env, do_memory, iresult, i, number, x, r, repeat_, best,
                   memory, todo, tnumber, ret, measured, calib, rloops, setupRuns,
                   loopRuns, memSamples, printed>>

\* lines 250-256: every buffer is reshaped to shape and transposed
Reshape ==
    /\ pc = "reshape"
    /\ result' = [result EXCEPT
           !.info = ReshapeT(@, shape),
           !.time = ReshapeT(@, shape),
           !.mem = IF do_memory THEN ReshapeT(@, shape) ELSE @]
    /\ pc' = "done"
    /\ UNCHANGED <<call, env, err, do_memory, iresult, i, number, x, r, repeat_, best,
                   memory, todo, tnumber, ret, written, measured, calib, rloops,
                   setupRuns, loopRuns, memSamples, printed>>

Next ==
    \/ CheckArguments
    \/ Normalize
    \/ FirstMemorySample
    \/ NextCombination
    \/ Calibrate
    \/ TimerSetup
    \/ TimerLoop
    \/ Calibrated
    \/ Actual
    \/ Repeat
    \/ Reduce
    \/ Report
    \/ Store
    \/ Reshape

Spec == Init /\ [][Next]_vars

----------------------------------------------------------------------------
\* Observations used by the properties.

MaxOf(S) == CHOOSE m \in S : \A y \in S : y <= m

\* the shape of a tensor, read off its index set
TensorShape(t) ==
    LET some == CHOOSE idx \in DOMAIN t : TRUE
    IN [a \in 1..Len(some) |-> 1 + MaxOf({idx[a] : idx \in DOMAIN t})]

\* the sweeps of the call: the snippet list when stmts is a sequence, the
\* swept positional inputs and the swept keyword inputs
Sweeps ==
    (IF call.stmts.single THEN <<>>
     ELSE <<[kind |-> "stmt", pos |-> 0, n |-> Len(call.stmts.items)]>>)
    \o Compress([k \in 1..Len(call.args) |->
                    [kind |-> "arg", pos |-> k, n |-> call.args[k].n]],
                [k \in 1..Len(call.args) |-> call.args[k].loop])
    \o Compress([k \in 1..Len(call.keywords) |->
                    [kind |-> "kw", pos |-> k, n |-> call.keywords[k].n]],
                [k \in 1..Len(call.keywords) |-> call.keywords[k].loop])

\* the position, in sweep w, of the value combination c picks from it
ValueOn(c, w) ==
    CASE w.kind = "stmt" -> c.stmt
      [] w.kind = "arg"  -> c.arg[w.pos]
      [] w.kind = "kw"   -> c.kw[w.pos]

SweptArgLens ==
    Compress([k \in 1..Len(call.args) |-> call.args[k].n],
             [k \in 1..Len(call.args) |-> call.args[k].loop])

SweptKeyLens ==
    Compress([k \in 1..Len(call.keywords) |-> call.keywords[k].n],
             [k \in 1..Len(call.keywords) |-> call.keywords[k].loop])

----------------------------------------------------------------------------
\* C1: in the returned tensors every axis stands for exactly one sweep and
\* has its length, and the cell at an index tuple holds the label and the
\* time per loop measured for the combination that picks, from every sweep,
\* the value at the position given by the index on the sweep's axis.
C1_CellsMatchCombinations ==
    pc = "done" =>
        \E sigma \in Permutations(1..Len(Sweeps)) :
            /\ DOMAIN result.info =
                   Indices([a \in 1..Len(Sweeps) |-> Sweeps[sigma[a]].n])
            /\ DOMAIN result.time = DOMAIN result.info
            /\ \A idx \in DOMAIN result.info :
                  \E m \in 1..Len(measured) :
                     /\ \A a \in 1..Len(Sweeps) :
                           ValueOn(measured[m].comb, Sweeps[sigma[a]]) = idx[a]
                     /\ result.info[idx] = InfoOf(measured[m].comb)
                     /\ result.time[idx] = measured[m].time

\* the length of the first declared sweep: the first swept positional input,
\* or the first swept keyword input when no positional input is swept
FirstSweepLen ==
    IF SweptArgLens # <<>> THEN SweptArgLens[1] ELSE SweptKeyLens[1]

SeqWithSweep ==
    /\ pc = "done"
    /\ ~call.stmts.single
    /\ SweptArgLens \o SweptKeyLens # <<>>

UpTo(n) == [p \in 1..n |-> p - 1]

NumSwept(inputs) == Cardinality({k \in 1..Len(inputs) : inputs[k].loop})

\* C3: a fixed input never adds an axis: the returned tensors have one axis
\* per swept positional input, one per swept keyword input and one more when
\* stmts is a sequence; they have as many cells as combinations were
\* enumerated; and during the run the flat positions 0 .. nbenches-1 are
\* written once each, in enumeration order.
C3_FixedInputsAddNoAxis ==
    /\ written = UpTo(Len(written))
    /\ pc \in {"loop", "calibrate", "timeit", "inner", "calibrated", "actual",
               "repeat", "reduce", "report", "store"} =>
           /\ Len(written) = IF pc = "loop" THEN iresult + 1 ELSE iresult
           /\ Len(written) <= Len(result.time)
           /\ \A p \in 1..Len(result.time) :
                 p > Len(written) => result.time[p] = ZeroTime
    /\ pc = "done" =>
           /\ Len(written) = Len(measured)
           /\ \A t \in {result.info, result.time} :
                 /\ Len(TensorShape(t)) =
                        NumSwept(call.args) + NumSwept(call.keywords)
                        + (IF call.stmts.single THEN 0 ELSE 1)
                 /\ Cardinality(DOMAIN t) = Len(measured)

C3_Witness ==
    /\ pc = "done"
    /\ Len(call.args) = 2
    /\ ~call.args[1].loop
    /\ call.args[2].loop
    /\ Len(call.keywords) = 2
    /\ call.keywords[1].loop
    /\ ~call.keywords[2].loop
    /\ Len(written) = 6

TextAmongStmts == \E k \in 1..Len(call.stmts.items) : call.stmts.items[k] = "text"

\* C4: when a positional value is supplied and the snippet list holds a text
\* snippet, at whatever position, the call ends in a configuration error
\* before any setup or snippet is executed: it never goes past the checks of
\* its arguments.
C4_TextWithPositionalsRejected ==
    (Len(call.args) > 0 /\ TextAmongStmts) =>
        /\ pc \in {"call", "raised"}
        /\ pc = "raised" => err \in {"TypeError", "ValueError"}

StmtsBad == \E k \in 1..Len(call.stmts.items) : call.stmts.items[k] = "other"

\* C5: when stmts is not a callable, a string or a sequence of those, or
\* setup is not a string or a callable, or maxloop < 1, the call ends in an
\* error (TypeError for stmts and setup, ValueError for maxloop) and before
\* it no setup and no snippet is run, no memory sample taken, nothing printed.
C5_InvalidArgumentsFailFirst ==
    (StmtsBad \/ call.setup = "other" \/ call.maxloop < 1) =>
        /\ pc \in {"call", "raised"}
        /\ pc = "raised" =>
               err = IF StmtsBad \/ call.setup = "other"
                     THEN "TypeError" ELSE "ValueError"
        /\ setupRuns = 0
        /\ loopRuns = 0
        /\ memSamples = 0
        /\ printed = 0
        /\ result = NoResult

C5_Witness ==
    /\ pc = "raised"
    /\ err = "ValueError"
    /\ call.maxloop < 1
    /\ ~StmtsBad
    /\ call.setup # "other"
    /\ call.stmts.items[1] = "callable"
    /\ call.memory_usage

\* the current combination has been timed and not yet left
Timed == pc \in {"reduce", "report", "store"} \/ (pc = "loop" /\ iresult >= 0)

\* C6: for maxloop >= 1 and repeat >= 1, every execution of the timer uses a
\* loop count between 1 and maxloop, the chosen number is between 1 and
\* maxloop, and the time stored for the combination is the minimum of the
\* samples over number, every sample having been measured with exactly
\* number loops.
C6_TimeIsBestOverNumber ==
    (call.maxloop >= 1 /\ call.repeat >= 1) =>
        /\ pc = "inner" => (1 <= tnumber /\ tnumber <= call.maxloop)
        /\ (pc = "repeat" \/ Timed) => (1 <= number /\ number <= call.maxloop)
        /\ Timed => \A k \in 1..Len(rloops) : rloops[k] = number
        /\ pc \in {"report", "store"} => best = Min(r)
        /\ (pc = "loop" /\ iresult >= 0) =>
               /\ Len(r) = Len(rloops)
               /\ Len(r) >= 1
               /\ result.time[iresult + 1] = <<Min(r), number>>

C6_Witness ==
    /\ pc = "loop"
    /\ iresult = 0
    /\ call.maxloop = 5
    /\ number = 5
    /\ r = <<1000, 100, 2500>>
    /\ result.time[1] = <<100, 5>>

\* C7: with memory_usage=True, when the first memory sample fails with an
\* I/O error the sampler is never called again, every combination is still
\* timed and the result has exactly the keys variables, setup, info and
\* time; when it succeeds the sampler is called twice per combination,
\* before and after the timed repeats, and the result has one tensor per
\* metric.
C7_MemorySamplingDisabledOnce ==
    call.memory_usage =>
        IF env.proc = "missing"
        THEN /\ memSamples <= 1
             /\ err # "IOError"
             /\ pc = "done" =>
                    /\ memSamples = 1
                    /\ Len(measured) = Len(iterinputs)
                    /\ result.keys = {"variables", "setup", "info", "time"}
        ELSE /\ pc \in {"repeat", "timeit", "inner", "reduce"} /\ ret = "repeat" =>
                    memSamples = 1 + 2 * iresult + 1
             /\ pc \in {"report", "store"} => memSamples = 1 + 2 * (iresult + 1)
             /\ pc = "done" =>
                    /\ memSamples = 1 + 2 * Len(iterinputs)
                    /\ result.keys = {"variables", "setup", "info", "time"} \cup Metrics
                    /\ \A idx \in DOMAIN result.mem : result.mem[idx] = 1

C7_Witness ==
    /\ pc = "done"
    /\ call.memory_usage
    /\ env.proc = "missing"
    /\ memSamples = 1
    /\ Len(measured) = 4

\* C8 as stated: over the whole handling of a combination the setup is
\* executed exactly once, before the first execution of the snippet.
C8_SetupOncePerCombination ==
    /\ pc = "inner" => setupRuns >= 1
    /\ pc \in {"reduce", "report", "store"} => setupRuns = 1

\* C8 amended: the setup is executed once per execution of the timer, that
\* is before every calibration run and before every timed repeat: over the
\* whole handling of a combination it is executed as many times as the timer
\* is executed, at least once, and its first execution precedes the first
\* execution of the snippet.
C8_SetupOncePerTimerExecution ==
    /\ pc = "inner" => setupRuns = loopRuns + 1
    /\ pc \in {"calibrate", "timeit", "calibrated", "actual", "repeat", "reduce",
               "report", "store"} => setupRuns = loopRuns
    /\ pc \in {"reduce", "report", "store"} =>
           /\ setupRuns >= 1
           /\ setupRuns = Len(calib) + (IF number = 1 THEN Len(r) - 1 ELSE Len(r))

C8_Witness ==
    /\ pc = "store"
    /\ call.repeat = 3
    /\ Len(calib) = 2
    /\ setupRuns = 5

\* C9 as stated: when number is 1 and the calibration run took more than one
\* second, floor(repeat / x) further runs are timed; in every other case the
\* last calibration sample is reused as one of the repeats: it is a sample
\* of the minimum, it was not measured again, and there are repeat samples.
C9_CalibrationSampleReused ==
    (pc = "reduce" /\ call.repeat >= 1) =>
        IF number = 1 /\ x > OneSecondMs
        THEN Len(r) - 1 = (call.repeat * 1000) \div x
        ELSE /\ Len(r) = call.repeat
             /\ r[1] = x
             /\ loopRuns = Len(calib) + call.repeat - 1

\* C9 amended: when number is 1 and the calibration run took more than one
\* second, floor(repeat / x) further runs are timed after the calibration
\* sample; when number is 1 and x <= 1 s the calibration sample is reused as
\* one of the repeat samples; when number > 1 the calibration sample is not
\* reused: repeat fresh runs of number loops are timed and the minimum is
\* taken over these repeat samples only.
C9_CalibrationSampleReusedForOneLoop ==
    (pc = "reduce" /\ call.repeat >= 1) =>
        IF number = 1
        THEN /\ r[1] = x
             /\ Len(r) = IF x > OneSecondMs
                         THEN 1 + (call.repeat * 1000) \div x
                         ELSE call.repeat
             /\ loopRuns = Len(calib) + Len(r) - 1
        ELSE /\ Len(r) = call.repeat
             /\ loopRuns = Len(calib) + call.repeat

C9_Witness ==
    /\ pc = "reduce"
    /\ call.repeat = 3
    /\ number = 1
    /\ x = 2500
    /\ Len(r) = 2

FloorReached == \E k \in 1..Len(calib) : calib[k][2] >= FloorMs

\* C10: for 1 <= maxloop <= 10^9 the calibration runs use the loop counts 1,
\* 10, 100, ... in this order, one run per count, none above maxloop, and
\* stop at the first count whose elapsed time is >= 0.1 s; the chosen number
\* is that power of ten when a calibration run reached the floor, and is
\* exactly maxloop when none did.
C10_CalibrationLadder ==
    (1 <= call.maxloop /\ call.maxloop <= 1000000000) =>
        /\ \A k \in 1..Len(calib) :
              /\ calib[k][1] = Pow10(k - 1)
              /\ calib[k][1] <= call.maxloop
              /\ k < Len(calib) => calib[k][2] < FloorMs
        /\ FloorReached =>
               /\ pc # "calibrate"
               /\ pc \in {"timeit", "inner"} => ret = "repeat"
        /\ pc \in {"repeat", "reduce", "report", "store"} =>
               number = IF FloorReached THEN calib[Len(calib)][1] ELSE call.maxloop

C10_Witness ==
    /\ pc = "repeat"
    /\ call.maxloop = 5
    /\ number = 5
    /\ calib = << <<1, 50>> >>

====
